---- MODULE Spec2Model ----
(***************************************************************************)
(* A model of the spyglass crawl queue, its RPC handlers and its plugin    *)
(* host functions.                                                         *)
(*                                                                         *)
(*   crates/spyglass/src/api/route.rs       add_queue, toggle_pause,       *)
(*                                          app_stats, _get_current_status *)
(*   crates/spyglass/src/plugin/exports.rs  plugin_enqueue, plugin_log,    *)
(*                                          plugin_sync_file               *)
(*   crates/spyglass/src/state.rs           AppState::new                  *)
(*   crates/shared/src/config.rs            Limit, UserSettings            *)
(*   crates/entities/src/models/lens.rs     add                            *)
(*                                                                         *)
(* The crawl_queue entity (enqueue_all, the dequeue/dispatch policy) and   *)
(* the scheduler loop are not part of the sources at hand; they are        *)
(* modelled from the design document (sections 4.1 - 4.3 and 5).           *)
(*                                                                         *)
(* Strings that the code takes apart (URLs, file system paths) are         *)
(* sequences: a URL is a sequence of tokens (scheme, host, path), a path   *)
(* is a sequence of characters.                                            *)
(***************************************************************************)
EXTENDS Integers, Sequences, FiniteSets

VARIABLES
    db,             \* the crawl_queue table: a sequence of rows, oldest first
                    \* (tasks, and the rows lens add puts there)
    app_state,      \* AppState.app_state: the DashMap, key "paused"
    user_settings,  \* AppState.user_settings, fixed at construction
    racers,         \* how many dispatch attempts the scheduler runs at once
    approvals,      \* tasks whose dispatch passed admission, not yet transitioned
    call,           \* the step an enqueue task or add_queue has just made
    written,        \* files the host has written for plugins, whole or not
    last_sync,      \* the last plugin_sync_file request and its outcome
    n_sync,         \* number of plugin_sync_file requests served
    rpc,            \* the toggle_pause / app_stats calls being served
    history,        \* the writes toggle_pause has made to "paused", in order
    spawned,        \* the tasks plugin_enqueue has handed to the runtime
    host,           \* the last host function call of a guest and its outcome
    lens_calls,     \* the lens add calls being served
    at_pause,       \* what was in flight when paused was last set to "true"
    locks           \* the guards held on the "paused" entry, and calls begun

\* the state of the handlers that run as several steps
ext == <<rpc, history, spawned, host, lens_calls, at_pause, locks>>

vars == <<db, app_state, user_settings, racers, approvals, call,
          written, last_sync, n_sync, ext>>

(***************************************************************************)
(* Bounds of the model.                                                    *)
(***************************************************************************)
MaxRacers == 2
MaxBatch == 3
MaxStore == 2
MaxPathLen == 4
MaxSyncs == 1

(***************************************************************************)
(* Helpers on sequences.                                                   *)
(***************************************************************************)
Range(s) == {s[i] : i \in 1..Len(s)}

SeqsUpTo(S, n) == UNION {[1..m -> S] : m \in 0..n}

(***************************************************************************)
(* shared::config::Limit.  value() is a u32; a u32 is kept as two 16-bit   *)
(* limbs <<high, low>> so that u32::MAX is representable.                  *)
(***************************************************************************)
U16_MAX == 65535

Infinite == [kind |-> "Infinite", val |-> 0]
Finite(n) == [kind |-> "Finite", val |-> n]

ToU32(n) == <<n \div (U16_MAX + 1), n % (U16_MAX + 1)>>
U32_MAX == <<U16_MAX, U16_MAX>>
U32Ge(a, b) == a[1] > b[1] \/ (a[1] = b[1] /\ a[2] >= b[2])

\* a plausible slip: every limit reads as unlimited
LimitValue_Unlimited(limit) == U32_MAX

\* a plausible slip: Infinite reads as the least value, not the greatest
LimitValue_InfiniteIsZero(limit) ==
    IF limit.kind = "Infinite" THEN ToU32(0) ELSE ToU32(limit.val)

LimitValue(limit) ==
    IF limit.kind = "Infinite" THEN U32_MAX ELSE ToU32(limit.val)

\* UserSettings::default()
DefaultSettings ==
    [domain_crawl_limit    |-> Finite(1000),
     inflight_crawl_limit  |-> Finite(10),
     inflight_domain_limit |-> Finite(2),
     allow_list            |-> {},
     block_list            |-> {"web.archive.org"}]

\* the settings of the design document's scenario
ScenarioSettings ==
    [DefaultSettings EXCEPT !.domain_crawl_limit = Finite(2),
                            !.inflight_domain_limit = Finite(1)]

\* one page per domain
TightSettings ==
    [DefaultSettings EXCEPT !.domain_crawl_limit = Finite(1)]

(***************************************************************************)
(* URLs.  A URL string is a sequence of tokens; Url::parse accepts         *)
(* <<scheme, host>> and <<scheme, host, path>> for the special scheme      *)
(* "http://", and anything after a scheme without authority ("mailto:"),   *)
(* which then has no host.                                                 *)
(***************************************************************************)
Hosts == {"a.com", "b.com", "web.archive.org"}
NoHost == "(none)"

A1 == <<"http://", "a.com", "/1">>
A2 == <<"http://", "a.com", "/2">>
A3 == <<"http://", "a.com", "/3">>
B0 == <<"http://", "b.com">>
W1 == <<"http://", "web.archive.org", "/1">>
NoScheme == <<"a.com", "/1">>
Mailto == <<"mailto:", "x">>

\* the URL strings plugins put in their batches
BatchUrls == {A1, A2, B0, W1, NoScheme}
\* the URL strings add_queue is called with
Urls == BatchUrls \cup {Mailto}
\* the URL strings add_queue is called with while the scheduler is observed
SchedUrls == {A1, A2, NoScheme}
\* the batches plugins send meanwhile
SchedBatches == {<<A1>>, <<A3>>, <<W1>>}

\* Url::parse: [ok, host, href]; href is the serialisation of the parsed URL
UrlParse(s) ==
    IF Len(s) >= 1 /\ s[1] = "http://"
    THEN IF Len(s) >= 2 /\ s[2] \in Hosts
         THEN [ok |-> TRUE, host |-> s[2],
               href |-> <<s[1], s[2], IF Len(s) >= 3 THEN s[3] ELSE "/">>]
         ELSE [ok |-> FALSE, host |-> NoHost, href |-> <<>>]
    ELSE IF Len(s) >= 1 /\ s[1] = "mailto:"
         THEN [ok |-> TRUE, host |-> NoHost, href |-> s]
         ELSE [ok |-> FALSE, host |-> NoHost, href |-> <<>>]

\* a URL the enqueue path can use: it parses and has a host
WellFormed(s) == UrlParse(s).ok /\ UrlParse(s).host # NoHost

(***************************************************************************)
(* The crawl_queue table.                                                  *)
(***************************************************************************)
CrawlStatus == {"Queued", "Processing", "Completed", "Failed"}

NewTask(url, domain, crawl_type) ==
    [url |-> url, domain |-> domain, crawl_type |-> crawl_type,
     status |-> "Queued"]

\* a row of the table has this url; a row without a url has none
HasUrl(store, url) ==
    \E i \in 1..Len(store) :
        "url" \in DOMAIN store[i] /\ store[i].url = url

\* number of rows of a domain, over all statuses
DomainCount(store, domain) ==
    Cardinality({i \in 1..Len(store) : store[i].domain = domain})

\* crawl_queue::num_queued(db, status)
num_queued(store, status) ==
    Cardinality({i \in 1..Len(store) : store[i].status = status})

\* in-flight tasks of one domain
InflightCount(store, domain) ==
    Cardinality({i \in 1..Len(store) :
                    store[i].domain = domain /\ store[i].status = "Processing"})

(***************************************************************************)
(* The Admission Controller's enqueue path (crawl_queue::enqueue_all),     *)
(* after section 4.2 of the design document.                               *)
(***************************************************************************)
\* overrides: EnqueueSettings; plugin_enqueue passes Default::default()
DefaultOverrides == [crawl_type |-> "Plugin"]
NormalOverrides == [crawl_type |-> "Normal"]

\* a plausible slip: the allow list is not consulted
Blocked_BlockListWins(settings, domain) == domain \in settings.block_list

Blocked(settings, domain) ==
    domain \in settings.block_list /\ domain \notin settings.allow_list

AtDomainLimit(store, settings, domain) ==
    U32Ge(ToU32(DomainCount(store, domain)),
          LimitValue(settings.domain_crawl_limit))

\* steps 1 - 4 for one candidate, against the rows it is tested against
Admissible(store, settings, url) ==
    /\ WellFormed(url)
    /\ ~Blocked(settings, UrlParse(url).host)
    /\ ~HasUrl(store, UrlParse(url).href)
    /\ ~AtDomainLimit(store, settings, UrlParse(url).host)

RECURSIVE FilterFrom(_, _, _, _, _)
\* the candidates are taken in order; each is tested against the store as
\* read and the rows chosen for the candidates before it, so that of
\* a.com/1, a.com/2, a.com/3 under Finite(2) the third is rejected (the
\* scenario of section 8) and a URL twice in a batch is chosen once
FilterFrom(store, settings, overrides, urls, chosen) ==
    IF urls = <<>> THEN chosen
    ELSE LET u == Head(urls)
         IN FilterFrom(store, settings, overrides, Tail(urls),
                IF Admissible(store \o chosen, settings, u)
                THEN Append(chosen, NewTask(UrlParse(u).href, UrlParse(u).host,
                                            overrides.crawl_type))
                ELSE chosen)

\* a plausible slip: a malformed entry ends the batch
filter_urls_StopsAtMalformed(store, settings, overrides, urls) ==
    LET bad == {k \in 1..Len(urls) : ~WellFormed(urls[k])}
        stop == IF bad = {} THEN Len(urls) + 1
                ELSE CHOOSE k \in bad : \A j \in bad : k <= j
    IN FilterFrom(store, settings, overrides, SubSeq(urls, 1, stop - 1), <<>>)

\* the rows to add for a batch: candidates that pass steps 1 - 4, in order
filter_urls(store, settings, overrides, urls) ==
    FilterFrom(store, settings, overrides, urls, <<>>)

\* insert of one row: the unique index on url rejects a second row
Insert(store, row) ==
    IF HasUrl(store, row.url)
    THEN [ok |-> FALSE, db |-> store]
    ELSE [ok |-> TRUE, db |-> Append(store, row)]

RECURSIVE insert_many(_, _)
\* step 5: insert the batch; a uniqueness violation skips that row
insert_many(store, rows) ==
    IF rows = <<>> THEN store
    ELSE insert_many(Insert(store, Head(rows)).db, Tail(rows))

enqueue_all(store, urls, settings, overrides) ==
    [result |-> "ok",
     db |-> insert_many(store, filter_urls(store, settings, overrides, urls))]

(***************************************************************************)
(* route.rs: add_queue.                                                    *)
(***************************************************************************)
\* a plausible slip: an upsert, which re-queues the row of a known URL
add_queue_Upsert(store, url) ==
    LET parsed == UrlParse(url)
        row == NewTask(url, parsed.host, "Normal")
    IN IF ~parsed.ok \/ parsed.host = NoHost
       THEN [result |-> "panic", db |-> store]
       ELSE IF HasUrl(store, url)
            THEN [result |-> "ok",
                  db |-> [i \in 1..Len(store) |->
                            IF store[i].url = url THEN row ELSE store[i]]]
            ELSE [result |-> "ok", db |-> Append(store, row)]

add_queue(store, url) ==
    LET parsed == UrlParse(url)                        \* Url::parse(..).unwrap()
    IN IF ~parsed.ok \/ parsed.host = NoHost           \* host_str().unwrap()
       THEN [result |-> "panic", db |-> store]
       ELSE LET ins == Insert(store, NewTask(url, parsed.host, "Normal"))
            IN IF ins.ok
               THEN [result |-> "ok", db |-> ins.db]
               ELSE [result |-> "InternalError", db |-> store]

(***************************************************************************)
(* Shared runtime state: the "paused" entry of AppState.app_state.         *)
(***************************************************************************)
BoolToString(b) == IF b THEN "true" ELSE "false"

\* AppState::new: app_state.insert("paused", "false")
NewAppState == [paused |-> "false"]

\* a plausible slip: toggle_pause pauses, whatever the flag was
toggle_pause_SetsTrue(state) == [state EXCEPT !.paused = "true"]

\* route.rs: the block of toggle_pause that holds the entry's guard
toggle_pause(state) ==
    LET current_status == (state.paused = "true")
        updated_status == ~current_status
    IN [state EXCEPT !.paused = BoolToString(updated_status)]

\* a plausible slip: the in-flight count is reported as it was read
current_status_KeepsInProgress(q, p, state) ==
    [num_queued |-> q, num_in_progress |-> p,
     is_paused |-> (state.paused = "true")]

\* route.rs: _get_current_status once both counts have been read: q and p
\* are the results of the two num_queued queries
current_status(q, p, state) ==
    LET is_paused == (state.paused = "true")
    IN [num_queued      |-> q,
        num_in_progress |-> IF is_paused THEN 0 ELSE p,
        is_paused       |-> is_paused]

\* route.rs: _get_current_status with nothing running between its reads
get_current_status(store, state) ==
    current_status(num_queued(store, "Queued"),
                   num_queued(store, "Processing"), state)

(***************************************************************************)
(* The Admission Controller's dispatch policy and the Task Store queries   *)
(* the scheduler uses, after sections 4.1 - 4.3 of the design document.    *)
(***************************************************************************)
AtInflightDomainLimit(store, settings, domain) ==
    U32Ge(ToU32(InflightCount(store, domain)),
          LimitValue(settings.inflight_domain_limit))

AtInflightCrawlLimit(store, settings) ==
    U32Ge(ToU32(num_queued(store, "Processing")),
          LimitValue(settings.inflight_crawl_limit))

\* a plausible slip: the pause flag is not consulted
Admit_IgnoresPause(store, state, settings, i) ==
    /\ ~AtInflightCrawlLimit(store, settings)
    /\ ~AtInflightDomainLimit(store, settings, store[i].domain)

\* dispatch policy for the task at index i
Admit(store, state, settings, i) ==
    /\ state.paused # "true"
    /\ ~AtInflightCrawlLimit(store, settings)
    /\ ~AtInflightDomainLimit(store, settings, store[i].domain)

RECURSIVE EligibleFrom(_, _, _, _)
\* at most limit indices >= from of Queued tasks whose domain is below its
\* in-flight cap, oldest first
EligibleFrom(store, settings, from, limit) ==
    IF from > Len(store) \/ limit = 0 THEN <<>>
    ELSE IF /\ store[from].status = "Queued"
            /\ ~AtInflightDomainLimit(store, settings, store[from].domain)
         THEN <<from>> \o EligibleFrom(store, settings, from + 1, limit - 1)
         ELSE EligibleFrom(store, settings, from + 1, limit)

find_eligible(store, settings, limit) == EligibleFrom(store, settings, 1, limit)

\* transition(task_id, new_status); NotFound leaves the store as it is
transition(store, id, new_status) ==
    IF id \in 1..Len(store)
    THEN [store EXCEPT ![id].status = new_status]
    ELSE store

(***************************************************************************)
(* State and actions.                                                      *)
(***************************************************************************)
NoCall == [op |-> "none"]
NoSync == [plugin |-> "", dst |-> <<>>, copied |-> FALSE]

\* the callers of the RPC handlers and of lens add that may overlap
Clients == {"c1", "c2"}
\* no call of a client is being served
Idle == [op |-> "none", pc |-> "idle"]
\* no host function has been called yet
NoHostCall == [n |-> 0, fn |-> "none", read |-> FALSE, copied |-> FALSE,
               guest |-> "running"]

\* paused has not been set to "true" yet
NotPaused == [inflight |-> {}, rows |-> 0]

\* no guard is held on the "paused" entry, no call has begun
NoLocks == [held |-> {}, calls |-> 0]

InitCommon ==
    /\ db = <<>>
    /\ app_state = NewAppState
    /\ approvals = {}
    /\ call = NoCall
    /\ written = {}
    /\ last_sync = NoSync
    /\ n_sync = 0
    /\ rpc = [c \in Clients |-> Idle]
    /\ history = <<>>
    /\ spawned = <<>>
    /\ host = NoHostCall
    /\ lens_calls = [c \in Clients |-> Idle]
    /\ at_pause = NotPaused
    /\ locks = NoLocks

(***************************************************************************)
(* exports.rs: plugin_enqueue.  The host function reads its request from   *)
(* the guest's I/O stream (wasi_read; read.ok tells whether a request      *)
(* could be read and deserialized), hands a task to the runtime and        *)
(* returns.  The task runs later: it awaits enqueue_all, which reads the   *)
(* table (section 4.2, steps 1 - 4) and then inserts its batch (step 5);   *)
(* other handlers run before, between and after the two.  The outcome of   *)
(* the task goes to the log.                                               *)
(***************************************************************************)
MaxSpawned == 2
MaxHostCalls == 3

Unread == [ok |-> FALSE, urls |-> <<>>, src |-> <<>>, dst |-> <<>>]
EnqueueRead(urls) == [ok |-> TRUE, urls |-> urls, src |-> <<>>, dst |-> <<>>]
MountRead(src, dst) == [ok |-> TRUE, urls |-> <<>>, src |-> src, dst |-> dst]

\* rt.spawn(async move { enqueue_all(..) }): the task, not yet run
NewSpawn(urls) ==
    [urls |-> urls, pc |-> "pending", rows |-> <<>>, outcome |-> "none"]

\* a task that has run to its end: the request it owned is dropped, the
\* outcome is in the log
Finished(outcome) ==
    [urls |-> <<>>, pc |-> "done", rows |-> <<>>, outcome |-> outcome]

\* a plausible slip: the host function waits for the task it spawned
plugin_enqueue_Blocking(tasks, read) ==
    IF read.ok
    THEN [spawned |-> Append(tasks, NewSpawn(read.urls)), guest |-> "waiting"]
    ELSE [spawned |-> tasks, guest |-> "running"]

\* exports.rs: plugin_enqueue; tasks are the tasks of the runtime
plugin_enqueue(tasks, read) ==
    IF read.ok
    THEN [spawned |-> Append(tasks, NewSpawn(read.urls)), guest |-> "running"]
    ELSE [spawned |-> tasks, guest |-> "running"]

HostCall(fn, read, copied, guest) ==
    [n |-> host.n + 1, fn |-> fn, read |-> read.ok, copied |-> copied,
     guest |-> guest]

\* the guest calls plugin_enqueue: the table is not touched
HostEnqueue(read) ==
    LET out == plugin_enqueue(spawned, read)
    IN /\ host.guest = "running"
       /\ host.n < MaxHostCalls
       /\ Len(spawned) < MaxSpawned
       /\ spawned' = out.spawned
       /\ host' = HostCall("plugin_enqueue", read, FALSE, out.guest)
       /\ call' = NoCall
       /\ UNCHANGED <<db, app_state, user_settings, racers, approvals,
                      written, last_sync, n_sync, rpc, history, lens_calls,
                      at_pause, locks>>

\* the spawned task reads the table: steps 1 - 4 of the enqueue policy; the
\* record of the step holds the batch, the table read and the rows chosen
TaskFilter(t) ==
    LET rows == filter_urls(db, user_settings, DefaultOverrides,
                            spawned[t].urls)
    IN /\ spawned[t].pc = "pending"
       /\ spawned' = [spawned EXCEPT ![t].rows = rows, ![t].pc = "insert"]
       /\ call' = [op |-> "enqueue_read", urls |-> spawned[t].urls,
                   found |-> db, rows |-> rows]
       /\ UNCHANGED <<db, app_state, user_settings, racers, approvals,
                      written, last_sync, n_sync, rpc, history, host,
                      lens_calls, at_pause, locks>>

\* step 5, and Ok(_) => log::info!("enqueue successful"); the record of
\* the step holds the batch, the rows chosen, the table the insert found
\* and the outcome logged
TaskInsert(t) ==
    /\ spawned[t].pc = "insert"
    /\ db' = insert_many(db, spawned[t].rows)
    /\ spawned' = [spawned EXCEPT ![t] = Finished("ok")]
    /\ call' = [op |-> "enqueue", urls |-> spawned[t].urls,
                rows |-> spawned[t].rows, before |-> db, result |-> "ok"]
    /\ UNCHANGED <<app_state, user_settings, racers, approvals, written,
                   last_sync, n_sync, rpc, history, host, lens_calls,
                   at_pause, locks>>

\* the persistence layer fails: Err(e) => log::error!(..)
TaskFail(t) ==
    /\ spawned[t].pc \in {"pending", "insert"}
    /\ spawned' = [spawned EXCEPT ![t] = Finished("error")]
    /\ call' = NoCall
    /\ UNCHANGED <<db, app_state, user_settings, racers, approvals, written,
                   last_sync, n_sync, rpc, history, host, lens_calls,
                   at_pause, locks>>

TaskStep ==
    \E t \in 1..Len(spawned) : TaskFilter(t) \/ TaskInsert(t) \/ TaskFail(t)

AddQueue(url) ==
    /\ db' = add_queue(db, url).db
    /\ call' = NoCall
    /\ UNCHANGED <<app_state, user_settings, racers, approvals, written,
                   last_sync, n_sync, ext>>

TogglePause ==
    /\ app_state' = toggle_pause(app_state)
    /\ call' = NoCall
    /\ UNCHANGED <<db, user_settings, racers, approvals, written, last_sync,
                   n_sync, ext>>

\* a dispatch attempt reads the store and the flag and is approved
DispatchCheck(i) ==
    /\ Cardinality(approvals) < racers
    /\ i \in Range(find_eligible(db, user_settings, racers)) \ approvals
    /\ Admit(db, app_state, user_settings, i)
    /\ approvals' = approvals \cup {i}
    /\ call' = NoCall
    /\ UNCHANGED <<db, app_state, user_settings, racers, written, last_sync,
                   n_sync, ext>>

\* an approved attempt moves its task to Processing
DispatchTransition(i) ==
    /\ i \in approvals
    /\ db' = transition(db, i, "Processing")
    /\ approvals' = approvals \ {i}
    /\ call' = NoCall
    /\ UNCHANGED <<app_state, user_settings, racers, written, last_sync,
                   n_sync, ext>>

\* the fetch of a task in flight ends
FetchDone(i, outcome) ==
    /\ i \in 1..Len(db)
    /\ db[i].status = "Processing"
    /\ db' = transition(db, i, outcome)
    /\ call' = NoCall
    /\ UNCHANGED <<app_state, user_settings, racers, approvals, written,
                   last_sync, n_sync, ext>>

Init ==
    /\ InitCommon
    /\ user_settings \in {DefaultSettings, ScenarioSettings}
    /\ racers \in 1..MaxRacers

Next ==
    \/ \E urls \in SchedBatches : HostEnqueue(EnqueueRead(urls))
    \/ \E t \in 1..Len(spawned) : TaskFilter(t)
    \/ \E t \in 1..Len(spawned) : TaskInsert(t)
    \/ \E t \in 1..Len(spawned) : TaskFail(t)
    \/ \E u \in SchedUrls : AddQueue(u)
    \/ TogglePause
    \/ \E i \in 1..Len(db) : DispatchCheck(i)
    \/ \E i \in 1..Len(db) : DispatchTransition(i)
    \/ \E i \in 1..Len(db) : \E o \in {"Completed", "Failed"} : FetchDone(i, o)

Spec == Init /\ [][Next]_vars

(***************************************************************************)
(* Properties of the task life cycle and of dispatch (under Spec).         *)
(***************************************************************************)
Forward(a, b) ==
    \/ a = b
    \/ a = "Queued" /\ b = "Processing"
    \/ a = "Processing" /\ b \in {"Completed", "Failed"}

\* C1: in every step, every row stays in the table and its status stays or
\* moves one step forward along Queued -> Processing -> {Completed, Failed}
\* (so nothing returns to Queued, nothing skips Processing, and Completed
\* and Failed are final), and every row a step adds is Queued.
C1_StatusOnlyMovesForward ==
    [][ /\ Len(db') >= Len(db)
        /\ \A i \in 1..Len(db) :
              /\ db'[i].url = db[i].url
              /\ Forward(db[i].status, db'[i].status)
        /\ \A i \in (Len(db) + 1)..Len(db') : db'[i].status = "Queued" ]_vars

C1_Witness ==
    /\ \E i \in 1..Len(db) : db[i].status = "Completed"
    /\ \E i \in 1..Len(db) : db[i].status = "Failed"
    /\ \E i \in 1..Len(db) : db[i].status = "Queued"

\* C5, as claimed: in every step taken while paused is "true" the number of
\* Processing tasks does not grow and no Queued task becomes Processing.
C5_NoIncreaseWhilePaused ==
    [][ app_state.paused = "true" =>
          /\ num_queued(db', "Processing") <= num_queued(db, "Processing")
          /\ \A i \in 1..Len(db) :
                db[i].status = "Queued" => db'[i].status # "Processing" ]_vars

\* C5, amended: while paused is "true" no dispatch attempt passes admission,
\* and the number of Processing tasks grows only by the transition of an
\* attempt that passed admission before the flag was set.
C5_NoAdmissionWhilePaused ==
    [][ app_state.paused = "true" =>
          /\ approvals' \subseteq approvals
          /\ num_queued(db', "Processing") <=
                num_queued(db, "Processing")
                    + Cardinality(approvals \ approvals') ]_vars

C5_Witness ==
    /\ app_state.paused = "true"
    /\ approvals = {}
    /\ \E i \in 1..Len(db) : db[i].status = "Queued"
    /\ \E i \in 1..Len(db) : db[i].status = "Processing"

\* C7, as claimed: with inflight_domain_limit = Finite(1) no two tasks of
\* one domain are in Processing at the same time.
C7_OneAtATime ==
    user_settings.inflight_domain_limit = Finite(1) =>
        \A d \in Hosts : InflightCount(db, d) <= 1

\* C7, amended: with inflight_domain_limit = Finite(1) at most as many
\* tasks of one domain are in Processing as dispatch attempts run at once;
\* so only one at a time when the attempts do not overlap.
C7_OneAtATimePerRacer ==
    user_settings.inflight_domain_limit = Finite(1) =>
        \A d \in Hosts : InflightCount(db, d) <= racers

\* a single driver, one a.com task in flight, the other kept Queued
C7_Witness ==
    /\ user_settings.inflight_domain_limit = Finite(1)
    /\ racers = 1
    /\ \E i, j \in 1..Len(db) :
          /\ db[i].domain = db[j].domain
          /\ db[i].status = "Processing"
          /\ db[j].status = "Queued"

(***************************************************************************)
(* Racing dispatch attempts on one domain: more tasks of a domain than     *)
(* inflight_domain_limit + racers are submitted, and fetches end, so that  *)
(* dispatch cycle follows dispatch cycle.                                  *)
(***************************************************************************)
\* the URL strings add_queue is called with, in this order
RaceUrls ==
    <<A1, B0, A2, A3, <<"http://", "a.com", "/4">>, <<"http://", "a.com", "/5">>>>

InitRace ==
    /\ InitCommon
    /\ user_settings \in {DefaultSettings, ScenarioSettings}
    /\ racers \in 2..MaxRacers

NextRace ==
    \/ \E k \in 1..Len(RaceUrls) : k = Len(db) + 1 /\ AddQueue(RaceUrls[k])
    \/ \E i \in 1..Len(db) : DispatchCheck(i)
    \/ \E i \in 1..Len(db) : DispatchTransition(i)
    \/ \E i \in 1..Len(db) : \E o \in {"Completed", "Failed"} : FetchDone(i, o)

SpecRace == InitRace /\ [][NextRace]_vars

\* C6: with racers dispatch attempts racing (each reads the in-flight count
\* of the domain, then moves its task to Processing) and a finite
\* inflight_domain_limit, no domain ever has more than
\* inflight_domain_limit + racers tasks in Processing, however many
\* dispatch cycles have gone by.
C6_BoundedOvershoot ==
    user_settings.inflight_domain_limit.kind = "Finite" =>
        \A d \in Hosts :
            InflightCount(db, d) <=
                user_settings.inflight_domain_limit.val + racers

\* the race has happened in a later cycle: tasks of the domain have ended,
\* the domain is above its limit, and more tasks of it than
\* inflight_domain_limit + racers are in the table
C6_Witness ==
    /\ user_settings.inflight_domain_limit.kind = "Finite"
    /\ racers >= 2
    /\ \E d \in Hosts :
          /\ InflightCount(db, d) > user_settings.inflight_domain_limit.val
          /\ DomainCount(db, d) >
                user_settings.inflight_domain_limit.val + racers
          /\ \E i \in 1..Len(db) :
                db[i].domain = d /\ db[i].status \in {"Completed", "Failed"}

(***************************************************************************)
(* exports.rs: plugin_sync_file.  Paths are sequences of characters.       *)
(***************************************************************************)
PathChars == {"a", ".", "/"}
SrcPaths == SeqsUpTo(PathChars, MaxPathLen)
\* destination names a guest may send: a bare name, and names with a
\* separator (relative, parent directory, absolute)
DstNames == {<<"a">>, <<"a", "/", "b">>, <<".", ".", "/", "a">>, <<"/", "a">>}

Plugins == {"p", "q"}
PluginRoot == <<"/", "r">>
\* PluginConfig::data_folder: <plugin_root>/<name>
data_folder(name) == PluginRoot \o <<"/", name>>

HasSeparator(path) == \E i \in 1..Len(path) : path[i] = "/"

RECURSIVE Segments(_)
\* the pieces of a path between its separators
Segments(path) ==
    IF ~HasSeparator(path) THEN <<path>>
    ELSE LET k == CHOOSE i \in 1..Len(path) :
                     path[i] = "/" /\ \A j \in 1..(i - 1) : path[j] # "/"
         IN <<SubSeq(path, 1, k - 1)>>
                \o Segments(SubSeq(path, k + 1, Len(path)))

\* std::path::Path::file_name: the last component if it is a normal one;
\* empty pieces and "." are no components, ".." is not a normal one
file_name(path) ==
    LET segs == Segments(path)
        comps == SelectSeq(segs, LAMBDA c : c # <<>> /\ c # <<".">>)
    IN IF comps = <<>> \/ comps[Len(comps)] = <<".", ".">>
       THEN [some |-> FALSE, name |-> <<>>]
       ELSE [some |-> TRUE, name |-> comps[Len(comps)]]

\* std::path::Path::join: an absolute path replaces the base
PathJoin(base, path) ==
    IF path # <<>> /\ path[1] = "/" THEN path
    ELSE IF base # <<>> /\ base[Len(base)] = "/" THEN base \o path
         ELSE base \o <<"/">> \o path

\* what std::fs::copy(src, dst) can come to:
\*   "copied"   Ok: dst holds the content of src;
\*   "refused"  Err before dst is opened (src is missing or is no regular
\*              file, or dst cannot be opened): nothing is written;
\*   "broken"   Err after dst was opened (reading src or writing dst
\*              fails): dst has been created or truncated and is not whole.
CopyOutcomes == {"copied", "refused", "broken"}

\* the plugin's file at path is created or replaced
WriteFile(files, plugin, path, whole) ==
    {w \in files : ~(w.plugin = plugin /\ w.path = path)}
        \cup {[plugin |-> plugin, path |-> path, whole |-> whole]}

\* a plausible slip: the copy goes to the destination the guest names
plugin_sync_file_ToDst(data_dir, request, copy) ==
    IF file_name(request.src).some
    THEN [copied |-> copy = "copied", wrote |-> copy # "refused",
          dst |-> PathJoin(data_dir, request.dst)]
    ELSE [copied |-> FALSE, wrote |-> FALSE, dst |-> <<>>]

\* the request has been read; copy is what std::fs::copy comes to
plugin_sync_file(data_dir, request, copy) ==
    LET fn == file_name(request.src)
    IN IF fn.some
       THEN [copied |-> copy = "copied", wrote |-> copy # "refused",
             dst |-> PathJoin(data_dir, fn.name)]
       ELSE [copied |-> FALSE, wrote |-> FALSE, dst |-> <<>>]

SyncFile(plugin, request, copy) ==
    LET out == plugin_sync_file(data_folder(plugin), request, copy)
    IN /\ n_sync < MaxSyncs
       /\ n_sync' = n_sync + 1
       /\ written' = IF out.wrote
                     THEN WriteFile(written, plugin, out.dst, out.copied)
                     ELSE written
       /\ last_sync' = [plugin |-> plugin, dst |-> request.dst,
                        copied |-> out.copied]
       /\ UNCHANGED <<db, app_state, user_settings, racers, approvals, call,
                      ext>>

InitSync ==
    /\ InitCommon
    /\ user_settings = DefaultSettings
    /\ racers = 1

NextSync ==
    \E plugin \in Plugins, src \in SrcPaths, dst \in DstNames,
       copy \in CopyOutcomes :
        SyncFile(plugin, [src |-> src, dst |-> dst], copy)

SpecSync == InitSync /\ [][NextSync]_vars

\* path is dir/<name> for a single normal component <name>
DirectChild(path, dir) ==
    /\ Len(path) > Len(dir) + 1
    /\ SubSeq(path, 1, Len(dir)) = dir
    /\ path[Len(dir) + 1] = "/"
    /\ LET name == SubSeq(path, Len(dir) + 2, Len(path))
       IN ~HasSeparator(name) /\ name # <<".">> /\ name # <<".", ".">>

\* C8, as claimed: a request whose destination name holds a path separator
\* copies no file.
C8_SeparatorInDstRejected ==
    (n_sync > 0 /\ HasSeparator(last_sync.dst)) => ~last_sync.copied

\* C9: every file the host has written for a plugin is a direct child of
\* that plugin's own data directory.
C9_WritesStayInDataDir ==
    \A w \in written : DirectChild(w.path, data_folder(w.plugin))

\* a request that names a destination outside the data directory was served
\* with a copy
C9_Witness ==
    /\ last_sync.copied
    /\ last_sync.dst \in {<<".", ".", "/", "a">>, <<"/", "a">>}
    /\ \E w \in written : w.plugin = last_sync.plugin

(***************************************************************************)
(* Enqueue and add_queue calls observed: call is the record of the call    *)
(* whose insert was the last step, with its input, the table it found and  *)
(* its outcome.                                                            *)
(***************************************************************************)
\* the batches plugins send: one URL, two URLs of one domain, two domains,
\* a blocked domain, malformed entries around a URL, malformed entries only
Batches ==
    {<<A1>>, <<A1, A2>>, <<A2, B0>>, <<W1, B0>>,
     <<NoScheme, B0, NoScheme>>, <<NoScheme, NoScheme, NoScheme>>}

\* add_queue from its entry to its return: one INSERT
AddQueueCall(url) ==
    LET out == add_queue(db, url)
    IN /\ Len(db) < MaxStore
       /\ db' = out.db
       /\ call' = [op |-> "add_queue", urls |-> <<url>>, before |-> db,
                   result |-> out.result]
       /\ UNCHANGED <<app_state, user_settings, racers, approvals, written,
                      last_sync, n_sync, ext>>

InitEnqueue ==
    /\ InitCommon
    /\ user_settings \in {TightSettings, ScenarioSettings}
    /\ racers = 1

NextEnqueue ==
    \/ \E urls \in Batches :
          Len(db) < MaxStore /\ HostEnqueue(EnqueueRead(urls))
    \/ \E t \in 1..Len(spawned) : TaskFilter(t)
    \/ \E t \in 1..Len(spawned) : TaskInsert(t)
    \/ \E t \in 1..Len(spawned) : TaskFail(t)
    \/ \E u \in Urls : AddQueueCall(u)
    \/ \E i \in 1..Len(db) : DispatchCheck(i)
    \/ \E i \in 1..Len(db) : DispatchTransition(i)
    \/ \E i \in 1..Len(db) : \E o \in {"Completed", "Failed"} : FetchDone(i, o)

SpecEnqueue == InitEnqueue /\ [][NextEnqueue]_vars

Href(url) == UrlParse(url).href

\* a row of the table has this url
RowFor(store, url) == \E i \in 1..Len(store) : store[i].url = url

\* every URL of the batch is well formed and is the url of a row
AllPresent(store, urls) ==
    \A k \in 1..Len(urls) :
        WellFormed(urls[k]) /\ RowFor(store, Href(urls[k]))

\* the read of an enqueue chose a row for this URL
Chosen(url) == \E k \in 1..Len(call.rows) : call.rows[k].url = Href(url)

\* the insert of an enqueue left the rows it found as they were, added
\* only rows its read had chosen, and logged a success
InsertAddsChosenOnly ==
    /\ Len(db) >= Len(call.before)
    /\ SubSeq(db, 1, Len(call.before)) = call.before
    /\ \A i \in (Len(call.before) + 1)..Len(db) : db[i] \in Range(call.rows)
    /\ call.result = "ok"

\* every row the read of an enqueue had chosen is in the table after the
\* insert
InsertKeepsChosen ==
    \A k \in 1..Len(call.rows) : RowFor(db, call.rows[k].url)

\* the table holds a row of this URL: the url of a row, normalized, is the
\* URL, normalized
StoredUrl(store, url) ==
    \E i \in 1..Len(store) : Href(store[i].url) = Href(url)

\* C2, as claimed: the read of an enqueue chooses no row for a URL that has
\* a row in the table it reads, whatever that row's status; the insert
\* leaves every row it finds as it was, adds only rows the read had chosen
\* (none when every URL of the batch had a row) and logs no error; and the
\* guest that sent the batch keeps running.
C2_ResubmitIsNoOp ==
    /\ call.op = "enqueue_read" =>
          \A k \in 1..Len(call.urls) :
              (WellFormed(call.urls[k])
                  /\ StoredUrl(call.found, call.urls[k]))
                => ~Chosen(call.urls[k])
    /\ call.op = "enqueue" =>
          /\ InsertAddsChosenOnly
          /\ call.rows = <<>> => db = call.before
    /\ host.guest = "running"

\* C3, as claimed: add_queue(u) leaves the table as the batch enqueue of
\* <<u>> does, and a duplicate is not reported as an error.
C3_AddQueueIsSingleUrlEnqueue ==
    call.op = "add_queue" =>
        /\ db = enqueue_all(call.before, call.urls, user_settings,
                            NormalOverrides).db
        /\ call.result # "InternalError"

\* C4, as claimed: with domain_crawl_limit = Finite(n) no domain ever has
\* more than n rows, and the read of an enqueue chooses a row for every URL
\* that is well formed, not blocked, without a row, and of a domain with
\* room for all the URLs the batch has of it, whatever other domains are at
\* their limit.
C4_DomainNeverAboveLimit ==
    user_settings.domain_crawl_limit.kind = "Finite" =>
        /\ \A d \in Hosts :
              DomainCount(db, d) <= user_settings.domain_crawl_limit.val
        /\ call.op = "enqueue_read" =>
              \A k \in 1..Len(call.urls) :
                  LET u == call.urls[k]
                      same == {j \in 1..Len(call.urls) :
                                  /\ WellFormed(call.urls[j])
                                  /\ UrlParse(call.urls[j]).host
                                        = UrlParse(u).host}
                  IN (/\ WellFormed(u)
                      /\ ~Blocked(user_settings, UrlParse(u).host)
                      /\ ~StoredUrl(call.found, u)
                      /\ DomainCount(call.found, UrlParse(u).host)
                            + Cardinality(same)
                            <= user_settings.domain_crawl_limit.val)
                     => Chosen(u)

\* C10: the read of an enqueue chooses the rows it chooses for the same
\* batch without its malformed entries, and none for a batch of malformed
\* entries only; the insert adds only the chosen rows, so it leaves the
\* table as it was when none was chosen, and logs no error; and the guest
\* keeps running.
C10_MalformedEntriesSkipped ==
    /\ call.op = "enqueue_read" =>
          /\ call.rows = filter_urls(call.found, user_settings,
                                     DefaultOverrides,
                                     SelectSeq(call.urls, WellFormed))
          /\ (\A k \in 1..Len(call.urls) : ~WellFormed(call.urls[k]))
                => call.rows = <<>>
    /\ call.op = "enqueue" =>
          /\ InsertAddsChosenOnly
          /\ InsertKeepsChosen
          /\ call.rows = <<>> => db = call.before
    /\ host.guest = "running"

\* a batch of three with malformed entries around a URL that got its row
C10_Witness ==
    /\ call.op = "enqueue"
    /\ Len(call.urls) = 3
    /\ ~WellFormed(call.urls[1])
    /\ ~WellFormed(call.urls[3])
    /\ WellFormed(call.urls[2])
    /\ ~RowFor(call.before, Href(call.urls[2]))
    /\ RowFor(db, Href(call.urls[2]))

(***************************************************************************)
(* route.rs: toggle_pause and app_stats as they are served, several calls  *)
(* at once.  toggle_pause flips the flag under the guard of the "paused"   *)
(* entry, drops the guard, and then computes the status as app_stats does: *)
(* two queries of the table, each awaited, then a read of the flag.        *)
(***************************************************************************)
MaxToggles == 3

\* the URL strings submitted while the RPC handlers are observed
RpcUrls == {A1, B0}

NoStatus == [num_queued |-> 0, num_in_progress |-> 0, is_paused |-> FALSE]

\* a call that is about to compute the status
StatusCall(op, wrote, at) ==
    [op |-> op, pc |-> "num_queued", wrote |-> wrote, at |-> at,
     q |-> 0, p |-> 0, seen |-> 0, result |-> NoStatus]

\* toggle_pause, the scoped block: read, negate and write under get_mut
ToggleFlip(c) ==
    /\ rpc[c] = Idle
    /\ Len(history) < MaxToggles
    /\ app_state' = toggle_pause(app_state)
    /\ history' = Append(history, [before |-> app_state.paused,
                                   wrote |-> app_state'.paused])
    /\ rpc' = [rpc EXCEPT ![c] = StatusCall("toggle_pause", app_state'.paused,
                                            Len(history'))]
    /\ UNCHANGED <<db, user_settings, racers, approvals, call, written,
                   last_sync, n_sync, spawned, host, lens_calls, at_pause,
                   locks>>

\* app_stats: the handler is entered
AppStatsCall(c) ==
    /\ rpc[c] = Idle
    /\ rpc' = [rpc EXCEPT ![c] = StatusCall("app_stats", "", Len(history))]
    /\ UNCHANGED <<db, app_state, user_settings, racers, approvals, call,
                   written, last_sync, n_sync, history, spawned, host,
                   lens_calls, at_pause, locks>>

\* num_queued(db, CrawlStatus::Queued).await
StatusNumQueued(c) ==
    /\ rpc[c].pc = "num_queued"
    /\ rpc' = [rpc EXCEPT ![c].q = num_queued(db, "Queued"),
                          ![c].pc = "num_in_progress"]
    /\ UNCHANGED <<db, app_state, user_settings, racers, approvals, call,
                   written, last_sync, n_sync, history, spawned, host,
                   lens_calls, at_pause, locks>>

\* num_queued(db, CrawlStatus::Processing).await
StatusNumInProgress(c) ==
    /\ rpc[c].pc = "num_in_progress"
    /\ rpc' = [rpc EXCEPT ![c].p = num_queued(db, "Processing"),
                          ![c].pc = "paused"]
    /\ UNCHANGED <<db, app_state, user_settings, racers, approvals, call,
                   written, last_sync, n_sync, history, spawned, host,
                   lens_calls, at_pause, locks>>

\* app_state.get("paused"), and the AppStatus that is returned
StatusPaused(c) ==
    /\ rpc[c].pc = "paused"
    /\ rpc' = [rpc EXCEPT
                 ![c].result = current_status(rpc[c].q, rpc[c].p, app_state),
                 ![c].seen = Len(history),
                 ![c].pc = "done"]
    /\ UNCHANGED <<db, app_state, user_settings, racers, approvals, call,
                   written, last_sync, n_sync, history, spawned, host,
                   lens_calls, at_pause, locks>>

\* the caller takes the status it was sent
RpcReturn(c) ==
    /\ rpc[c].pc = "done"
    /\ rpc' = [rpc EXCEPT ![c] = Idle]
    /\ UNCHANGED <<db, app_state, user_settings, racers, approvals, call,
                   written, last_sync, n_sync, history, spawned, host,
                   lens_calls, at_pause, locks>>

InitRpc ==
    /\ InitCommon
    /\ user_settings = DefaultSettings
    /\ racers = 1

NextRpc ==
    \/ \E c \in Clients : ToggleFlip(c)
    \/ \E c \in Clients : AppStatsCall(c)
    \/ \E c \in Clients : StatusNumQueued(c)
    \/ \E c \in Clients : StatusNumInProgress(c)
    \/ \E c \in Clients : StatusPaused(c)
    \/ \E c \in Clients : RpcReturn(c)
    \/ \E u \in RpcUrls : AddQueue(u)
    \/ \E i \in 1..Len(db) : DispatchCheck(i)
    \/ \E i \in 1..Len(db) : DispatchTransition(i)
    \/ \E i \in 1..Len(db) : \E o \in {"Completed", "Failed"} : FetchDone(i, o)

SpecRpc == InitRpc /\ [][NextRpc]_vars

\* C11: toggle_pause is an involution on the flag: of two consecutive
\* toggles the second writes back the value the first found, the flag is
\* what the last toggle wrote, a toggle_pause call returns is_paused equal
\* to the value it wrote when no other toggle ran before it read the status,
\* and an app_stats call with no toggle since its read of the flag reports
\* the stored flag.
C11_ToggleTwiceRestores ==
    /\ \A k \in 1..(Len(history) - 1) :
          /\ history[k + 1].before = history[k].wrote
          /\ history[k + 1].wrote = history[k].before
    /\ history # <<>> => app_state.paused = history[Len(history)].wrote
    /\ \A c \in Clients :
          (rpc[c].op = "toggle_pause" /\ rpc[c].pc = "done"
              /\ rpc[c].seen = rpc[c].at)
            => rpc[c].result.is_paused = (rpc[c].wrote = "true")
    /\ \A c \in Clients :
          (rpc[c].op = "app_stats" /\ rpc[c].pc = "done"
              /\ rpc[c].seen = Len(history))
            => rpc[c].result.is_paused = (app_state.paused = "true")

\* toggled from "false" twice and from "true" twice; the last toggle has
\* returned its status and an app_stats call after it has returned too
C11_Witness ==
    /\ Len(history) = 3
    /\ app_state.paused = "true"
    /\ \E c, d \in Clients :
          /\ rpc[c].op = "toggle_pause" /\ rpc[c].pc = "done"
          /\ rpc[c].at = 3 /\ rpc[c].seen = 3
          /\ rpc[c].result.is_paused
          /\ rpc[d].op = "app_stats" /\ rpc[d].pc = "done"
          /\ rpc[d].at = 3 /\ rpc[d].result.is_paused

\* the tasks of the table in a status, counted row by row
RECURSIVE CountStatus(_, _)
CountStatus(store, status) ==
    IF store = <<>> THEN 0
    ELSE (IF Head(store).status = status THEN 1 ELSE 0)
            + CountStatus(Tail(store), status)

\* C12: a status computation reads num_queued as the number of Queued tasks
\* and the in-flight count as the number of Processing tasks, reports
\* is_paused as the flag is, num_queued as read, num_in_progress as 0 when the
\* flag is "true" and as read when it is not; and none of its steps changes
\* the table or the flag.
C12_StatusReportsCounts ==
    [][ \A c \in Clients :
          /\ (rpc[c].pc = "num_queued" /\ rpc'[c].pc = "num_in_progress")
                => /\ rpc'[c].q = CountStatus(db, "Queued")
                   /\ db' = db /\ app_state' = app_state
          /\ (rpc[c].pc = "num_in_progress" /\ rpc'[c].pc = "paused")
                => /\ rpc'[c].p = CountStatus(db, "Processing")
                   /\ rpc'[c].q = rpc[c].q
                   /\ db' = db /\ app_state' = app_state
          /\ (rpc[c].pc = "paused" /\ rpc'[c].pc = "done")
                => /\ rpc'[c].result.num_queued = rpc[c].q
                   /\ rpc'[c].result.is_paused = (app_state.paused = "true")
                   /\ rpc'[c].result.num_in_progress =
                         (IF app_state.paused = "true" THEN 0 ELSE rpc[c].p)
                   /\ db' = db /\ app_state' = app_state ]_vars

\* a status computed while paused with a task in flight and a task queued:
\* the in-flight count was read as 1 and is reported as 0
C12_Witness ==
    /\ app_state.paused = "true"
    /\ \E c \in Clients :
          /\ rpc[c].pc = "done"
          /\ rpc[c].seen = Len(history)
          /\ rpc[c].p = 1
          /\ rpc[c].result = [num_queued |-> 1, num_in_progress |-> 0,
                               is_paused |-> TRUE]
    /\ CountStatus(db, "Processing") = 1
    /\ CountStatus(db, "Queued") = 1

(***************************************************************************)
(* exports.rs: the three host functions as a guest calls them, with the    *)
(* tasks plugin_enqueue hands to the runtime and add_queue calls.          *)
(***************************************************************************)
\* the batches guests send
PluginBatches == {<<A1>>, <<B0, A1>>}
\* the sources guests name in sync_file requests: a file name, an absolute
\* path, and a path without a file name
SyncSources == {<<"a">>, <<"/", "a">>, <<".", ".">>}

\* exports.rs: plugin_log writes a line to the log when the message is read
HostLog(read) ==
    /\ host.guest = "running"
    /\ host.n < MaxHostCalls
    /\ host' = HostCall("plugin_log", read, FALSE, "running")
    /\ UNCHANGED <<db, app_state, user_settings, racers, approvals, call,
                   written, last_sync, n_sync, rpc, history, spawned,
                   lens_calls, at_pause, locks>>

HostSyncFile(plugin, read, copy) ==
    LET out == IF read.ok
               THEN plugin_sync_file(data_folder(plugin),
                                     [src |-> read.src, dst |-> read.dst],
                                     copy)
               ELSE [copied |-> FALSE, wrote |-> FALSE, dst |-> <<>>]
    IN /\ host.guest = "running"
       /\ host.n < MaxHostCalls
       /\ written' = IF out.wrote
                     THEN WriteFile(written, plugin, out.dst, out.copied)
                     ELSE written
       /\ host' = HostCall("plugin_sync_file", read, out.copied, "running")
       /\ UNCHANGED <<db, app_state, user_settings, racers, approvals, call,
                      last_sync, n_sync, rpc, history, spawned, lens_calls,
                      at_pause, locks>>

InitPlugin ==
    /\ InitCommon
    /\ user_settings = DefaultSettings
    /\ racers = 1

NextPlugin ==
    \/ \E urls \in PluginBatches : HostEnqueue(EnqueueRead(urls))
    \/ HostEnqueue(Unread)
    \/ \E read \in {Unread, EnqueueRead(<<>>)} : HostLog(read)
    \/ \E plugin \in Plugins, src \in SyncSources, copy \in CopyOutcomes :
          HostSyncFile(plugin, MountRead(src, <<"a">>), copy)
    \/ \E plugin \in Plugins : HostSyncFile(plugin, Unread, "copied")
    \/ \E t \in 1..Len(spawned) : TaskFilter(t)
    \/ \E t \in 1..Len(spawned) : TaskInsert(t)
    \/ \E t \in 1..Len(spawned) : TaskFail(t)
    \/ \E u \in {A1, B0} : AddQueueCall(u)

SpecPlugin == InitPlugin /\ [][NextPlugin]_vars

\* one guest and the runtime's tasks alone; the runtime runs every task
\* handed to it
NextHandOff ==
    \/ \E urls \in PluginBatches : HostEnqueue(EnqueueRead(urls))
    \/ HostEnqueue(Unread)
    \/ HostLog(EnqueueRead(<<>>))
    \/ \E t \in 1..Len(spawned) : TaskFilter(t)
    \/ \E t \in 1..Len(spawned) : TaskInsert(t)
    \/ \E t \in 1..Len(spawned) : TaskFail(t)

SpecHandOff == InitPlugin /\ [][NextHandOff]_vars /\ WF_vars(TaskStep)

\* C13, as claimed: with enqueue batches and add_queue calls that hold the
\* same URL running at once, no URL ever has two rows, a well-formed URL
\* handed to add_queue never comes back as an error, and a finished batch has
\* reported no error for a duplicate and has a row for each of its URLs.
C13_OneRowPerUrlNoError ==
    /\ \A i, j \in 1..Len(db) :
          Href(db[i].url) = Href(db[j].url) => i = j
    /\ (call.op = "add_queue" /\ WellFormed(call.urls[1]))
          => call.result = "ok"
    /\ call.op = "enqueue" => AllPresent(db, call.urls)

\* a host call of plugin_enqueue has just returned
EnqueueReturned ==
    host'.n = host.n + 1 /\ host'.fn = "plugin_enqueue"

\* C17: a plugin_enqueue call with a readable request adds one task to the
\* runtime, not yet run, touches no row and leaves the guest running,
\* whatever tasks are still pending; no step of a task changes what the
\* guest was returned; and every task handed to the runtime eventually
\* finishes, with a success or a logged error.
C17_EnqueueHandsOffAndReturns ==
    /\ [][ EnqueueReturned =>
              /\ host'.guest = "running"
              /\ db' = db
              /\ host'.read =>
                    /\ Len(spawned') = Len(spawned) + 1
                    /\ spawned'[Len(spawned')].pc = "pending"
                    /\ SubSeq(spawned', 1, Len(spawned)) = spawned ]_vars
    /\ [][ spawned' # spawned /\ ~EnqueueReturned => host' = host ]_vars
    /\ \A t \in 1..(MaxSpawned + 1) :
          (t <= Len(spawned)) ~>
              (/\ t <= Len(spawned)
               /\ spawned[t].pc = "done"
               /\ spawned[t].outcome \in {"ok", "error"})

\* the guest has made a further host call while two enqueues it handed off
\* earlier have not run
C17_Witness ==
    /\ Len(spawned) = 2
    /\ spawned[1].pc = "pending" /\ spawned[2].pc = "pending"
    /\ host.fn = "plugin_log"
    /\ host.n = 3
    /\ host.guest = "running"

\* a host call has just returned without having served its request: the
\* request could not be read, or the copy of sync_file failed
FailedHostCall ==
    /\ host'.n = host.n + 1
    /\ ~host'.read \/ (host'.fn = "plugin_sync_file" /\ ~host'.copied)

\* C18, as claimed: a host call whose request cannot be read, or whose
\* sync_file copy fails (no file name in the source, no regular file there,
\* an error while copying), inserts no row, hands no task to the runtime,
\* writes no file and leaves the guest running.
C18_FailedHostCallIsNoOp ==
    [][ FailedHostCall =>
          /\ db' = db
          /\ spawned' = spawned
          /\ written' = written
          /\ host'.guest = "running" ]_vars

(***************************************************************************)
(* lens.rs: add.  The entity is declared with table_name "crawl_queue":    *)
(* its find and its insert address the table of the tasks.  The call looks *)
(* the name up, awaits the answer, and inserts a row when it found none;   *)
(* other calls may run between the two.  Either statement may come back    *)
(* with an error (`?`): whether the store accepts a statement on the name, *)
(* author, description and version columns depends on the schema of        *)
(* crawl_queue, which the crawl_queue entity gives.  A row add inserts     *)
(* has those four columns set and no other.                                *)
(***************************************************************************)
LensNames == {"x", "y"}
None == "(None)"
LensAuthors == {None, "me"}
LensVersions == {"1", "2"}

\* a row of the table has this name; a task row has no name
HasLens(table, name) ==
    \E i \in 1..Len(table) :
        "name" \in DOMAIN table[i] /\ table[i].name = name

\* the ActiveModel that add builds
NewLens(name, author, description, version) ==
    [name |-> name,
     author |-> IF author = None THEN "Unknown" ELSE author,
     description |-> description,
     version |-> version]

\* new_lens.insert(db): the unique index on name rejects a second row
LensInsertRow(table, row) ==
    IF HasLens(table, row.name)
    THEN [ok |-> FALSE, table |-> table]
    ELSE [ok |-> TRUE, table |-> Append(table, row)]

\* add is entered
LensAddCall(c, name, author, version) ==
    /\ lens_calls[c] = Idle
    /\ lens_calls' = [lens_calls EXCEPT ![c] =
                        [op |-> "add", pc |-> "find", name |-> name,
                         author |-> author, version |-> version,
                         result |-> "none"]]
    /\ UNCHANGED <<db, app_state, user_settings, racers, approvals, call,
                   written, last_sync, n_sync, rpc, history, spawned, host,
                   at_pause, locks>>

\* Entity::find().filter(Column::Name.eq(name)).one(db).await?; answered
\* tells whether the store answered the SELECT on crawl_queue
LensFind(c, answered) ==
    /\ lens_calls[c].pc = "find"
    /\ lens_calls' = [lens_calls EXCEPT ![c] =
                        IF ~answered
                        THEN [@ EXCEPT !.pc = "done",
                                       !.result = "Err(store)"]
                        ELSE IF HasLens(db, lens_calls[c].name)
                        THEN [@ EXCEPT !.pc = "done", !.result = "Ok(false)"]
                        ELSE [@ EXCEPT !.pc = "insert"]]
    /\ UNCHANGED <<db, app_state, user_settings, racers, approvals, call,
                   written, last_sync, n_sync, rpc, history, spawned, host,
                   at_pause, locks>>

\* new_lens.insert(db).await?; Ok(true); answered tells whether the store
\* took the INSERT INTO crawl_queue as far as its unique index
LensInsert(c, answered) ==
    LET ins == LensInsertRow(db,
                   NewLens(lens_calls[c].name, lens_calls[c].author, None,
                           lens_calls[c].version))
    IN /\ lens_calls[c].pc = "insert"
       /\ db' = IF answered THEN ins.table ELSE db
       /\ lens_calls' = [lens_calls EXCEPT
                           ![c].pc = "done",
                           ![c].result = IF ~answered THEN "Err(store)"
                                         ELSE IF ins.ok THEN "Ok(true)"
                                         ELSE "Err(unique)"]
       /\ call' = NoCall
       /\ UNCHANGED <<app_state, user_settings, racers, approvals, written,
                      last_sync, n_sync, rpc, history, spawned, host,
                      at_pause, locks>>

\* the caller takes the result
LensReturn(c) ==
    /\ lens_calls[c].pc = "done"
    /\ lens_calls' = [lens_calls EXCEPT ![c] = Idle]
    /\ UNCHANGED <<db, app_state, user_settings, racers, approvals, call,
                   written, last_sync, n_sync, rpc, history, spawned, host,
                   at_pause, locks>>

InitLens ==
    /\ InitCommon
    /\ user_settings = DefaultSettings
    /\ racers = 1

NextLens ==
    \/ \E c \in Clients, name \in LensNames, author \in LensAuthors,
          version \in LensVersions : LensAddCall(c, name, author, version)
    \/ \E c \in Clients, answered \in BOOLEAN : LensFind(c, answered)
    \/ \E c \in Clients, answered \in BOOLEAN : LensInsert(c, answered)
    \/ \E c \in Clients : LensReturn(c)
    \/ AddQueueCall(A1)

SpecLens == InitLens /\ [][NextLens]_vars

\* the rows of the table that add has inserted
LensRows(table) == {i \in 1..Len(table) : "name" \in DOMAIN table[i]}

\* C14, as claimed: in every interleaving of add calls there is at most one
\* row per name, and a call that the store answered ends in Ok(true) or
\* Ok(false), never in an error: a row of its name is stored then, and a
\* call that returned Ok(true) added the row it built.
C14_AddTrueOnceElseFalse ==
    /\ \A i, j \in LensRows(db) : db[i].name = db[j].name => i = j
    /\ \A c \in Clients :
          lens_calls[c].pc = "done" /\ lens_calls[c].result # "Err(store)" =>
              /\ lens_calls[c].result \in {"Ok(true)", "Ok(false)"}
              /\ HasLens(db, lens_calls[c].name)
              /\ lens_calls[c].result = "Ok(true)" =>
                    \E i \in LensRows(db) :
                        db[i] = NewLens(lens_calls[c].name,
                                        lens_calls[c].author, None,
                                        lens_calls[c].version)

\* C15, as claimed: add_queue with a URL that does not parse, or that parses
\* without a host, comes back with an error value (it neither panics nor
\* reports success) and adds no row.
C15_MalformedAddQueueReturnsError ==
    (call.op = "add_queue" /\ ~WellFormed(call.urls[1]))
        => (call.result \notin {"panic", "ok"} /\ db = call.before)

(***************************************************************************)
(* The scheduler under a small global in-flight limit, tasks of two        *)
(* domains.                                                                *)
(***************************************************************************)
\* UserSettings with inflight_crawl_limit: Finite(n)
GlobalSettings(n) ==
    [DefaultSettings EXCEPT !.inflight_crawl_limit = Finite(n)]

\* the batches submitted while the global limit is observed
GlobalBatches == {<<A1, A2>>, <<B0>>, <<A2, B0>>}

InitGlobal ==
    /\ InitCommon
    /\ user_settings \in {GlobalSettings(1), GlobalSettings(2)}
    /\ racers \in 1..MaxRacers

NextGlobal ==
    \/ \E urls \in GlobalBatches : HostEnqueue(EnqueueRead(urls))
    \/ \E t \in 1..Len(spawned) : TaskFilter(t)
    \/ \E t \in 1..Len(spawned) : TaskInsert(t)
    \/ \E t \in 1..Len(spawned) : TaskFail(t)
    \/ TogglePause
    \/ \E i \in 1..Len(db) : DispatchCheck(i)
    \/ \E i \in 1..Len(db) : DispatchTransition(i)
    \/ \E i \in 1..Len(db) : \E o \in {"Completed", "Failed"} : FetchDone(i, o)

SpecGlobal == InitGlobal /\ [][NextGlobal]_vars

\* C16: with a single scheduler driver (one dispatch attempt at a time) and
\* inflight_crawl_limit = Finite(n), never more than n tasks are in
\* Processing, over all domains; and in no step taken while n or more are in
\* Processing does a Queued task leave Queued.
C16_GlobalLimitHolds ==
    /\ [](racers = 1 =>
            CountStatus(db, "Processing")
                <= user_settings.inflight_crawl_limit.val)
    /\ [][ (/\ racers = 1
            /\ CountStatus(db, "Processing")
                  >= user_settings.inflight_crawl_limit.val)
           => \A i \in 1..Len(db) :
                 db[i].status = "Queued" => db'[i].status = "Queued" ]_vars

\* a single driver, the limit of 1 in use by a task of one domain, and a
\* task of another domain (below its own limit) kept in Queued
C16_Witness ==
    /\ racers = 1
    /\ user_settings.inflight_crawl_limit = Finite(1)
    /\ app_state.paused = "false"
    /\ approvals = {}
    /\ \E i, j \in 1..Len(db) :
          /\ db[i].status = "Processing"
          /\ db[j].status = "Queued"
          /\ db[i].domain # db[j].domain
    /\ \E i \in 1..Len(db) : db[i].status = "Completed"

(***************************************************************************)
(* Pausing with fetches in flight.  The toggle_pause step notes which      *)
(* tasks are in Processing, and how many rows there are, at the moment it  *)
(* sets the flag to "true".  Every fetch ends: it completes, fails or      *)
(* times out (section 4.3).                                                *)
(***************************************************************************)
\* the URL strings submitted while pausing is observed
PauseUrls == {A1, B0}

InFlight(store) == {i \in 1..Len(store) : store[i].status = "Processing"}

\* a plausible slip: pausing cancels the fetches in flight
TogglePauseObserved_AbortsInFlight ==
    /\ app_state' = toggle_pause(app_state)
    /\ db' = [i \in 1..Len(db) |->
                IF db[i].status = "Processing" /\ app_state'.paused = "true"
                THEN [db[i] EXCEPT !.status = "Failed"] ELSE db[i]]
    /\ at_pause' = IF app_state'.paused = "true"
                   THEN [inflight |-> InFlight(db), rows |-> Len(db)]
                   ELSE at_pause
    /\ call' = NoCall
    /\ UNCHANGED <<user_settings, racers, approvals, written, last_sync,
                   n_sync, rpc, history, spawned, host, lens_calls, locks>>

\* route.rs: toggle_pause writes the "paused" entry and nothing else
TogglePauseObserved ==
    /\ app_state' = toggle_pause(app_state)
    /\ at_pause' = IF app_state'.paused = "true"
                   THEN [inflight |-> InFlight(db), rows |-> Len(db)]
                   ELSE at_pause
    /\ call' = NoCall
    /\ UNCHANGED <<db, user_settings, racers, approvals, written, last_sync,
                   n_sync, rpc, history, spawned, host, lens_calls, locks>>

InitPause ==
    /\ InitCommon
    /\ user_settings = DefaultSettings
    /\ racers \in 1..MaxRacers

NextPause ==
    \/ \E u \in PauseUrls : HostEnqueue(EnqueueRead(<<u>>))
    \/ \E t \in 1..Len(spawned) : TaskFilter(t)
    \/ \E t \in 1..Len(spawned) : TaskInsert(t)
    \/ \E t \in 1..Len(spawned) : TaskFail(t)
    \/ TogglePauseObserved
    \/ \E i \in 1..Len(db) : DispatchCheck(i)
    \/ \E i \in 1..Len(db) : DispatchTransition(i)
    \/ \E i \in 1..Len(db) : \E o \in {"Completed", "Failed"} : FetchDone(i, o)

SpecPause ==
    /\ InitPause /\ [][NextPause]_vars
    /\ \A i \in 1..Cardinality(PauseUrls) :
          WF_vars(\E o \in {"Completed", "Failed"} : FetchDone(i, o))

\* C19: a step that changes the pause flag changes no row; a step taken
\* while paused is "true" never takes a task out of Processing other than
\* to Completed or Failed and may add rows, which are Queued; and a task
\* that is in Processing while the flag is "true" reaches Completed or
\* Failed, whether or not the flag is cleared.
C19_PauseAbortsNothing ==
    /\ [][ app_state'.paused # app_state.paused => db' = db ]_vars
    /\ [][ app_state.paused = "true" =>
              /\ Len(db') >= Len(db)
              /\ \A i \in 1..Len(db) :
                    db[i].status = "Processing" =>
                        db'[i].status \in {"Processing", "Completed", "Failed"}
              /\ \A i \in (Len(db) + 1)..Len(db') :
                    db'[i].status = "Queued" ]_vars
    /\ \A i \in 1..Cardinality(PauseUrls) :
          (/\ app_state.paused = "true"
           /\ i <= Len(db)
           /\ db[i].status = "Processing")
            ~> (i <= Len(db) /\ db[i].status \in {"Completed", "Failed"})

\* the flag is still "true"; a task that was in flight when it was set has
\* finished since, and a task enqueued since is Queued
C19_Witness ==
    /\ app_state.paused = "true"
    /\ \E i \in at_pause.inflight : db[i].status \in {"Completed", "Failed"}
    /\ Len(db) > at_pause.rows
    /\ db[Len(db)].status = "Queued"

(***************************************************************************)
(* Enqueue under block and allow lists.                                    *)
(***************************************************************************)
\* two domains blocked, one of them allowed as well
MixedSettings ==
    [DefaultSettings EXCEPT !.block_list = {"web.archive.org", "a.com"},
                            !.allow_list = {"web.archive.org"}]

\* the URL strings of the batches: a.com, b.com and web.archive.org
ListUrls == {A1, B0, W1}

InitLists ==
    /\ InitCommon
    /\ user_settings \in {DefaultSettings, MixedSettings}
    /\ racers = 1

NextLists ==
    \/ \E urls \in SeqsUpTo(ListUrls, MaxBatch) :
          HostEnqueue(EnqueueRead(urls))
    \/ \E t \in 1..Len(spawned) : TaskFilter(t)
    \/ \E t \in 1..Len(spawned) : TaskInsert(t)
    \/ \E t \in 1..Len(spawned) : TaskFail(t)

SpecLists == InitLists /\ [][NextLists]_vars

\* C20: the read of an enqueue chooses no row for a URL of the batch whose
\* domain is in block_list and not in allow_list, and chooses one for every
\* other well-formed URL of the batch (its domain in neither list, or in
\* both) that has no row and whose domain is below its limit in the table
\* read, whatever else the batch holds; the insert adds only chosen rows
\* and every chosen row is in the table after it.
C20_AllowListWins ==
    /\ call.op = "enqueue_read" =>
          \A k \in 1..Len(call.urls) :
              LET u == call.urls[k]
                  d == UrlParse(u).host
              IN WellFormed(u) =>
                   /\ (d \in user_settings.block_list
                          /\ d \notin user_settings.allow_list) => ~Chosen(u)
                   /\ (/\ d \notin user_settings.block_list
                             \/ d \in user_settings.allow_list
                       /\ ~RowFor(call.found, Href(u))
                       /\ ~AtDomainLimit(call.found, user_settings, d))
                        => Chosen(u)
    /\ call.op = "enqueue" => InsertAddsChosenOnly /\ InsertKeepsChosen

\* one batch: the URL of a blocked domain in the middle got no row, the URL
\* of a blocked and allowed domain and the URL of a domain in neither list
\* got theirs
C20_Witness ==
    /\ call.op = "enqueue"
    /\ user_settings = MixedSettings
    /\ call.urls = <<W1, A1, B0>>
    /\ call.before = <<>>
    /\ RowFor(db, Href(W1))
    /\ ~RowFor(db, Href(A1))
    /\ RowFor(db, Href(B0))

(***************************************************************************)
(* config.rs: Limit::value and the comparison count >= limit.value(), on   *)
(* 32-bit unsigned counts kept as two 16-bit limbs.                        *)
(***************************************************************************)
MaxLimit == 3

\* impl Default for Limit
DefaultLimit == Finite(100)

\* the limits a configuration may hold: small ones, the default, the limb
\* boundary, and a large one
Limits ==
    {Infinite, DefaultLimit} \cup {Finite(n) : n \in 0..MaxLimit}
        \cup {Finite(U16_MAX), Finite(U16_MAX + 1), Finite(2147483647)}

\* counts around each of them, up to the 32-bit maximum
Counts ==
    {0, 1, 32767, U16_MAX}
        \X ((0..(MaxLimit + 1)) \cup {99, 100, 101, U16_MAX - 1, U16_MAX})

\* a limit check: count >= limit.value()
Rejects(count, limit) == U32Ge(count, LimitValue(limit))

LimitCheck(limit, count) ==
    /\ call' = [op |-> "limit", limit |-> limit, count |-> count,
                value |-> LimitValue(limit), reject |-> Rejects(count, limit)]
    /\ UNCHANGED <<db, app_state, user_settings, racers, approvals, written,
                   last_sync, n_sync, ext>>

InitLimit ==
    /\ InitCommon
    /\ user_settings = DefaultSettings
    /\ racers = 1

NextLimit == \E limit \in Limits, count \in Counts : LimitCheck(limit, count)

SpecLimit == InitLimit /\ [][NextLimit]_vars

\* count >= n, for a count in limbs and a number n
CountAtLeast(count, n) ==
    \/ count[1] > n \div (U16_MAX + 1)
    \/ count[1] = n \div (U16_MAX + 1) /\ count[2] >= n % (U16_MAX + 1)

\* C21: value() is n for Finite(n) and the 32-bit maximum for Infinite; a
\* check under Finite(n) rejects exactly when the count is n or more, so
\* Finite(0) rejects every count; a check under Infinite rejects no count
\* below the 32-bit maximum; and the default Limit is Finite(100).
C21_LimitValue ==
    /\ DefaultLimit = [kind |-> "Finite", val |-> 100]
    /\ call.op = "limit" =>
          /\ call.limit.kind = "Finite" =>
                /\ call.value = ToU32(call.limit.val)
                /\ call.reject <=> CountAtLeast(call.count, call.limit.val)
                /\ call.limit.val = 0 => call.reject
          /\ call.limit.kind = "Infinite" =>
                /\ call.value = <<U16_MAX, U16_MAX>>
                /\ call.count # <<U16_MAX, U16_MAX>> => ~call.reject

\* a count one below the 32-bit maximum was let through under Infinite
C21_Witness ==
    /\ call.op = "limit"
    /\ call.limit = Infinite
    /\ call.count = <<U16_MAX, U16_MAX - 1>>
    /\ ~call.reject

(***************************************************************************)
(* route.rs: toggle_pause and app_stats with the guards of the DashMap     *)
(* entry "paused" made explicit.  get_mut waits until no guard is held on  *)
(* the entry and then holds it exclusively; get waits while an exclusive   *)
(* guard is held.  A guard is dropped at the end of its scope: the block   *)
(* in toggle_pause, the end of _get_current_status.  The scheduler reads   *)
(* the flag with get.                                                      *)
(***************************************************************************)
MaxLockCalls == 4

Scheduler == "scheduler"

Guard(who, mode) == [who |-> who, mode |-> mode]

\* a plausible slip: the entry is read and written under a guard that
\* excludes nobody
CanWrite_Shared(held) == TRUE

\* get_mut("paused") may take its guard
CanWrite(held) == held = {}

\* get("paused") may take its guard
CanRead(held) == \A g \in held : g.mode # "write"

\* a plausible slip: without the scope the guard lives on
DropGuard_Kept(held, who) == held

\* the guards of who go out of scope
DropGuard(held, who) == {g \in held : g.who # who}

\* a call of a handler: current is what get_mut found in the entry
LockCall(op, pc) ==
    [op |-> op, pc |-> pc, current |-> "", wrote |-> "", at |-> 0,
     q |-> 0, p |-> 0, seen |-> 0, result |-> NoStatus]

\* toggle_pause is entered
ToggleCall(c) ==
    /\ rpc[c] = Idle
    /\ locks.calls < MaxLockCalls
    /\ rpc' = [rpc EXCEPT ![c] = LockCall("toggle_pause", "get_mut")]
    /\ locks' = [locks EXCEPT !.calls = @ + 1]
    /\ UNCHANGED <<db, app_state, user_settings, racers, approvals, call,
                   written, last_sync, n_sync, history, spawned, host,
                   lens_calls, at_pause>>

\* let mut paused_status = app_state.get_mut("paused").unwrap()
GetMutPaused(c) ==
    /\ rpc[c].pc = "get_mut"
    /\ CanWrite(locks.held)
    /\ locks' = [locks EXCEPT !.held = @ \cup {Guard(c, "write")}]
    /\ rpc' = [rpc EXCEPT ![c].pc = "read"]
    /\ UNCHANGED <<db, app_state, user_settings, racers, approvals, call,
                   written, last_sync, n_sync, history, spawned, host,
                   lens_calls, at_pause>>

\* let current_status = paused_status.to_string() == "true"
ToggleRead(c) ==
    /\ rpc[c].pc = "read"
    /\ rpc' = [rpc EXCEPT ![c].current = app_state.paused, ![c].pc = "write"]
    /\ UNCHANGED <<db, app_state, user_settings, racers, approvals, call,
                   written, last_sync, n_sync, history, spawned, host,
                   lens_calls, at_pause, locks>>

\* *paused_status = (!current_status).to_string()
ToggleWrite(c) ==
    LET found == [app_state EXCEPT !.paused = rpc[c].current]
    IN /\ rpc[c].pc = "write"
       /\ app_state' = toggle_pause(found)
       /\ history' = Append(history, [before |-> rpc[c].current,
                                      wrote |-> app_state'.paused])
       /\ rpc' = [rpc EXCEPT ![c].wrote = app_state'.paused, ![c].pc = "drop"]
       /\ UNCHANGED <<db, user_settings, racers, approvals, call, written,
                      last_sync, n_sync, spawned, host, lens_calls, at_pause,
                      locks>>

\* the end of the block
ToggleDrop(c) ==
    /\ rpc[c].pc = "drop"
    /\ locks' = [locks EXCEPT !.held = DropGuard(@, c)]
    /\ rpc' = [rpc EXCEPT ![c].pc = "num_queued"]
    /\ UNCHANGED <<db, app_state, user_settings, racers, approvals, call,
                   written, last_sync, n_sync, history, spawned, host,
                   lens_calls, at_pause>>

\* app_stats is entered
StatsCall(c) ==
    /\ rpc[c] = Idle
    /\ locks.calls < MaxLockCalls
    /\ rpc' = [rpc EXCEPT ![c] = LockCall("app_stats", "num_queued")]
    /\ locks' = [locks EXCEPT !.calls = @ + 1]
    /\ UNCHANGED <<db, app_state, user_settings, racers, approvals, call,
                   written, last_sync, n_sync, history, spawned, host,
                   lens_calls, at_pause>>

\* let paused_status = app_state.get("paused").unwrap()
GetPaused(c) ==
    /\ rpc[c].pc = "paused"
    /\ CanRead(locks.held)
    /\ locks' = [locks EXCEPT !.held = @ \cup {Guard(c, "read")}]
    /\ rpc' = [rpc EXCEPT ![c].pc = "return"]
    /\ UNCHANGED <<db, app_state, user_settings, racers, approvals, call,
                   written, last_sync, n_sync, history, spawned, host,
                   lens_calls, at_pause>>

\* the AppStatus is built and _get_current_status ends
StatusReturn(c) ==
    /\ rpc[c].pc = "return"
    /\ rpc' = [rpc EXCEPT
                 ![c].result = current_status(rpc[c].q, rpc[c].p, app_state),
                 ![c].pc = "done"]
    /\ locks' = [locks EXCEPT !.held = DropGuard(@, c)]
    /\ UNCHANGED <<db, app_state, user_settings, racers, approvals, call,
                   written, last_sync, n_sync, history, spawned, host,
                   lens_calls, at_pause>>

\* the scheduler's dispatch policy reads the flag
SchedulerGet ==
    /\ locks.calls < MaxLockCalls
    /\ \A g \in locks.held : g.who # Scheduler
    /\ CanRead(locks.held)
    /\ locks' = [held |-> locks.held \cup {Guard(Scheduler, "read")},
                 calls |-> locks.calls + 1]
    /\ UNCHANGED <<db, app_state, user_settings, racers, approvals, call,
                   written, last_sync, n_sync, rpc, history, spawned, host,
                   lens_calls, at_pause>>

SchedulerDrop ==
    /\ Guard(Scheduler, "read") \in locks.held
    /\ locks' = [locks EXCEPT !.held = DropGuard(@, Scheduler)]
    /\ UNCHANGED <<db, app_state, user_settings, racers, approvals, call,
                   written, last_sync, n_sync, rpc, history, spawned, host,
                   lens_calls, at_pause>>

\* a step of a call that has been entered
CallStep(c) ==
    \/ GetMutPaused(c) \/ ToggleRead(c) \/ ToggleWrite(c) \/ ToggleDrop(c)
    \/ StatusNumQueued(c) \/ StatusNumInProgress(c)
    \/ GetPaused(c) \/ StatusReturn(c)
    \/ RpcReturn(c)

InitLocks ==
    /\ InitCommon
    /\ user_settings = DefaultSettings
    /\ racers = 1

NextLocks ==
    \/ \E c \in Clients : ToggleCall(c)
    \/ \E c \in Clients : GetMutPaused(c)
    \/ \E c \in Clients : ToggleRead(c)
    \/ \E c \in Clients : ToggleWrite(c)
    \/ \E c \in Clients : ToggleDrop(c)
    \/ \E c \in Clients : StatsCall(c)
    \/ \E c \in Clients : StatusNumQueued(c)
    \/ \E c \in Clients : StatusNumInProgress(c)
    \/ \E c \in Clients : GetPaused(c)
    \/ \E c \in Clients : StatusReturn(c)
    \/ \E c \in Clients : RpcReturn(c)
    \/ SchedulerGet
    \/ SchedulerDrop

\* every call that has been entered keeps running, and the scheduler drops
\* the guard it took
SpecLocks ==
    /\ InitLocks /\ [][NextLocks]_vars
    /\ \A c \in Clients : WF_vars(CallStep(c))
    /\ WF_vars(SchedulerDrop)

\* the guards a holder has on the runtime state
GuardsOf(who) == {g \in locks.held : g.who = who}

\* a call has been entered and has not returned its status
InCall(c) == rpc[c].pc \notin {"idle", "done"}

\* C22: no handler and no scheduler read holds more than one guard at a
\* time; whenever a call is in progress, a call in progress can take its
\* next step or the scheduler can drop its guard (no deadlock); and every toggle_pause or app_stats call
\* that is entered returns its status, whatever the interleaving with
\* other calls and with the scheduler's reads of the flag.
C22_NoDeadlockOneLock ==
    /\ [](\A who \in Clients \cup {Scheduler} :
             Cardinality(GuardsOf(who)) <= 1)
    /\ []((\E c \in Clients : InCall(c))
             => \/ \E c \in Clients : InCall(c) /\ ENABLED CallStep(c)
                \/ ENABLED SchedulerDrop)
    /\ \A c \in Clients : InCall(c) ~> (rpc[c].pc = "done")

\* a toggle_pause holds the exclusive guard while the other client waits
\* for the entry and the scheduler has read the flag before
C22_Witness ==
    \E c, d \in Clients :
        /\ c # d
        /\ Guard(c, "write") \in locks.held
        /\ rpc[d].pc \in {"get_mut", "paused"}
        /\ locks.calls >= 3

Negated(flag) == IF flag = "true" THEN "false" ELSE "true"

\* C23: the entry "paused" always exists and holds "true" or "false";
\* it is "false" after an even number of toggles and "true" after an odd
\* number; every toggle negates the value the toggle before it wrote (the
\* first negates the initial "false"), so no toggle is lost.
C23_ToggleAtomic ==
    /\ "paused" \in DOMAIN app_state
    /\ app_state.paused \in {"true", "false"}
    /\ app_state.paused = IF Len(history) % 2 = 0 THEN "false" ELSE "true"
    /\ \A k \in 1..Len(history) :
          /\ history[k].before =
                IF k = 1 THEN "false" ELSE history[k - 1].wrote
          /\ history[k].wrote = Negated(history[k].before)

\* after one toggle, a second toggle_pause is between its read and its
\* write while the other client's toggle_pause waits in get_mut
C23_Witness ==
    \E c, d \in Clients :
        /\ c # d
        /\ Len(history) = 1
        /\ rpc[c].op = "toggle_pause" /\ rpc[c].pc = "write"
        /\ rpc[d].op = "toggle_pause" /\ rpc[d].pc = "get_mut"

(***************************************************************************)
(* The scheduler as a fair process: the tick and the completion of every   *)
(* fetch are weakly fair; enqueues and toggle_pause are not.               *)
(***************************************************************************)
\* the URL strings submitted
LiveUrls == {A1, A2, B0}
\* the batches they are submitted in
LiveBatches == {<<A1, A2>>, <<B0>>, <<A2, B0>>}

\* UserSettings with the two in-flight limits given
LiveSettings(crawl, domain) ==
    [DefaultSettings EXCEPT !.inflight_crawl_limit = crawl,
                            !.inflight_domain_limit = domain]

\* the tightest limits of at least 1, unlimited, and a limit of 0
LiveSettingsSet ==
    {LiveSettings(Finite(1), Finite(1)),
     LiveSettings(Infinite, Infinite),
     LiveSettings(Finite(0), Finite(1))}

\* a unit of scheduler work: a dispatch attempt or the transition of an
\* approved one
Tick ==
    \E i \in 1..Len(db) : DispatchCheck(i) \/ DispatchTransition(i)

InitLive ==
    /\ InitCommon
    /\ user_settings \in LiveSettingsSet
    /\ racers \in 1..MaxRacers

NextLive ==
    \/ \E urls \in LiveBatches : HostEnqueue(EnqueueRead(urls))
    \/ \E t \in 1..Len(spawned) : TaskFilter(t)
    \/ \E t \in 1..Len(spawned) : TaskInsert(t)
    \/ \E t \in 1..Len(spawned) : TaskFail(t)
    \/ TogglePauseObserved
    \/ \E i \in 1..Len(db) : DispatchCheck(i)
    \/ \E i \in 1..Len(db) : DispatchTransition(i)
    \/ \E i \in 1..Len(db) : \E o \in {"Completed", "Failed"} : FetchDone(i, o)

SpecLive ==
    /\ InitLive /\ [][NextLive]_vars
    /\ WF_vars(Tick)
    /\ \A i \in 1..Cardinality(LiveUrls) :
          WF_vars(\E o \in {"Completed", "Failed"} : FetchDone(i, o))

\* every limit of the settings is at least 1
LimitsAtLeastOne ==
    \A l \in {user_settings.domain_crawl_limit,
              user_settings.inflight_crawl_limit,
              user_settings.inflight_domain_limit} :
        l.kind = "Infinite" \/ l.val >= 1

\* every task that is Queued reaches Completed or Failed
QueuedTasksFinish ==
    \A i \in 1..Cardinality(LiveUrls) :
        (i <= Len(db) /\ db[i].status = "Queued")
          ~> (i <= Len(db) /\ db[i].status \in {"Completed", "Failed"})

\* C24 as stated: with every limit at least 1 and the pause flag false
\* again and again (never true forever), every Queued task reaches
\* Completed or Failed.
C24_Original ==
    (LimitsAtLeastOne /\ []<>(app_state.paused # "true"))
        => QueuedTasksFinish

\* C24: with every limit at least 1 and the pause flag false from some
\* point on, every task that is Queued eventually reaches Completed or
\* Failed, under weak fairness of the scheduler tick and of fetch
\* completion.
C24_QueuedTasksFinish ==
    (LimitsAtLeastOne /\ <>[](app_state.paused # "true"))
        => QueuedTasksFinish

\* under the tightest limits three tasks of two domains have all finished,
\* the crawler was paused while two of them were stored, and it runs again
C24_Witness ==
    /\ user_settings = LiveSettings(Finite(1), Finite(1))
    /\ Len(db) = Cardinality(LiveUrls)
    /\ \A i \in 1..Len(db) : db[i].status \in {"Completed", "Failed"}
    /\ at_pause.rows = 2
    /\ app_state.paused = "false"

====
